---- MODULE Spec2Model ----
(***************************************************************************)
(* Component registry and change notification of the GraphQL API           *)
(* (src/api/schema/components/mod.rs).                                      *)
(*                                                                          *)
(* update_config builds the new name -> Component map from a Config, reads  *)
(* the names held by the registry, sends one Removed event per name that    *)
(* disappeared and one Added event per name that appeared on the           *)
(* process-wide broadcast channel COMPONENT_CHANGED, and then overwrites    *)
(* the registry.  component_added / component_removed subscribe to that     *)
(* channel and filter what the receiver returns.                            *)
(*                                                                          *)
(* The registry itself (module `state`) is not part of the given sources;   *)
(* its operations are modelled from the specification as single atomic      *)
(* reads and one atomic whole-map write.                                    *)
(***************************************************************************)
EXTENDS Integers, Sequences, FiniteSets, TLC

\* ------------------------------------------------------------------ bounds
\* update_config is not started once the channel has stored this many events
\* (serial specification).
MaxStored == 4
\* The same in the specifications with small reloads: more than Capacity, so
\* that a receiver can fall behind by more than the channel retains.
MaxLagStored == 18
\* The same in the specification with two subscribers: one more than Capacity.
MaxFanStored == 17
\* Number of update_config calls per epoch of overlapping calls in the
\* concurrent specification.
MaxEpochCalls == 2

\* The capacity handed to tokio::sync::broadcast::channel.
ChannelArg == 10

\* usize::next_power_of_two
NextPowerOfTwo(n) == CHOOSE p \in {2 ^ k : k \in 0..n} : p >= n /\ p < 2 * n

\* The number of values the channel retains: the channel rounds the capacity
\* it is handed up to a power of two.
Capacity == NextPowerOfTwo(ChannelArg)

Writers == {"w1", "w2"}
Subs == {"s1", "s2"}

\* ------------------------------------------------------------ Component
Source(n, d) ==
    [kind |-> "Source", name |-> n, component_type |-> d.type, topology |-> d.output_type]

Transform(n, d) ==
    [kind |-> "Transform", name |-> n, component_type |-> d.type, topology |-> d.inputs]

\* Variant: the name and the type tag are exchanged.
SinkMisnamed(n, d) ==
    [kind |-> "Sink", name |-> d.type, component_type |-> n, topology |-> d.inputs]

Sink(n, d) ==
    [kind |-> "Sink", name |-> n, component_type |-> d.type, topology |-> d.inputs]

\* Variant: an entry of m2 whose key m1 already holds is dropped.
InsertAllKeep(m1, m2) ==
    [n \in (DOMAIN m1) \cup (DOMAIN m2) |-> IF n \in DOMAIN m1 THEN m1[n] ELSE m2[n]]

\* HashMap::insert of every entry of m2 into m1: an existing key is overwritten.
InsertAll(m1, m2) ==
    [n \in (DOMAIN m1) \cup (DOMAIN m2) |-> IF n \in DOMAIN m2 THEN m2[n] ELSE m1[n]]

EmptyMap == [n \in {} |-> 0]

\* ------------------------------------------------------------ Config inputs
SrcStdin == [type |-> "stdin", output_type |-> "Log"]
SrcStatsd == [type |-> "statsd", output_type |-> "Metric"]
TrJson(ins) == [type |-> "json_parser", inputs |-> ins]
SkConsole(ins) == [type |-> "console", inputs |-> ins]
SkFile(ins) == [type |-> "file", inputs |-> ins]

CfgEmpty == [sources |-> EmptyMap, transforms |-> EmptyMap, sinks |-> EmptyMap]

CfgAB ==
    [sources |-> ("a" :> SrcStdin), transforms |-> EmptyMap,
     sinks |-> ("b" :> SkConsole(<<"a">>))]

CfgBC ==
    [sources |-> EmptyMap, transforms |-> ("c" :> TrJson(<<"a">>)),
     sinks |-> ("b" :> SkConsole(<<"a">>))]

\* b keeps its name and changes kind, type tag and inputs; a changes its type
\* tag and output type.
CfgChanged ==
    [sources |-> ("a" :> SrcStatsd), transforms |-> ("b" :> TrJson(<<"a">>)),
     sinks |-> EmptyMap]

\* The name a is listed as a source and as a sink.
CfgDup ==
    [sources |-> ("a" :> SrcStdin), transforms |-> EmptyMap,
     sinks |-> ("a" :> SkFile(<<"a">>))]

\* The name a is listed as a source and as a transform.
CfgDupST ==
    [sources |-> ("a" :> SrcStdin), transforms |-> ("a" :> TrJson(<<"a">>)),
     sinks |-> EmptyMap]

\* The name a is listed under all three kinds, next to the source b.
CfgDupAll ==
    [sources |-> ("a" :> SrcStdin @@ "b" :> SrcStatsd),
     transforms |-> ("a" :> TrJson(<<"b">>)),
     sinks |-> ("a" :> SkConsole(<<"b">>))]

CfgA == [sources |-> ("a" :> SrcStdin), transforms |-> EmptyMap, sinks |-> EmptyMap]

CfgIn == [sources |-> ("in" :> SrcStdin), transforms |-> EmptyMap, sinks |-> EmptyMap]

Configs == {CfgEmpty, CfgAB, CfgBC, CfgChanged, CfgDup}
\* One name that comes and goes: one event per call, for long runs of calls.
LagConfigs == {CfgEmpty, CfgA}
ConcConfigs == {CfgAB, CfgBC}
\* Calls with two Added events, and calls with a Removed and an Added event.
PaceConfigs == {CfgAB, CfgBC}
RebuildConfigs == {CfgAB, CfgBC}
ReadConfigs == {CfgEmpty, CfgAB, CfgBC, CfgDup, CfgIn, CfgDupST, CfgDupAll}

\* ------------------------------------------------------------ update_config, lines 92-128
NewComponents(cfg) ==
    LET sources == [n \in DOMAIN cfg.sources |-> Source(n, cfg.sources[n])]
        transforms == [n \in DOMAIN cfg.transforms |-> Transform(n, cfg.transforms[n])]
        sinks == [n \in DOMAIN cfg.sinks |-> Sink(n, cfg.sinks[n])]
    IN InsertAll(InsertAll(sources, transforms), sinks)

\* new_component_names
NewComponentNames(new_components) == DOMAIN new_components

\* Variant: every existing name is reported removed.
RemovedNamesAll(existing_names, new_names) == existing_names

\* Variant: every new name is reported added.
AddedNamesAll(existing_names, new_names) == new_names

\* Variant: no name is reported removed.
RemovedNamesNone(existing_names, new_names) == {}

\* existing_component_names.difference(&new_component_names)
RemovedNames(existing_names, new_names) == existing_names \ new_names

\* new_component_names.difference(&existing_component_names)
AddedNames(existing_names, new_names) == new_names \ existing_names

\* ------------------------------------------------------------ state (registry)
\* state::get_component_names
GetComponentNames(snapshot) == DOMAIN snapshot

\* state::component_by_name: the component, or NotFound for an absent name.
NotFound == [kind |-> "NotFound"]
ComponentByName(snapshot, n) == IF n \in DOMAIN snapshot THEN snapshot[n] ELSE NotFound

\* state::filter_components / get_sources / get_transforms / get_sinks
FilterComponents(snapshot, kinds) ==
    {snapshot[n] : n \in {m \in DOMAIN snapshot : snapshot[m].kind \in kinds}}

Queries == {"components", "sources", "transforms", "sinks"}

QueryResult(q, snapshot) ==
    CASE q = "components" -> FilterComponents(snapshot, {"Source", "Transform", "Sink"})
      [] q = "sources" -> FilterComponents(snapshot, {"Source"})
      [] q = "transforms" -> FilterComponents(snapshot, {"Transform"})
      [] q = "sinks" -> FilterComponents(snapshot, {"Sink"})

\* ------------------------------------------------------------ state
VARIABLES
    components,     \* state: the registry's name -> Component map
    buffer,         \* COMPONENT_CHANGED: every value the channel stored, oldest first;
                    \* the channel retains the last Capacity of them
    pc,             \* update_config call of each writer: where it stands
    new_components, \* update_config: local new_components
    removed_left,   \* update_config: names the Removed loop has not reached yet
    added_left,     \* update_config: names the Added loop has not reached yet
    looked_up,      \* update_config: the component looked up for the Removed to send
    mode,           \* subscription: "none", "added" (component_added), "removed"
    next,           \* receiver: position of the next value to read
    terminated,     \* stream: it returned None
    last_read,      \* the latest query, its result, the writers then inside a call
    \* history variables
    cfg_of,         \* the Config of the writer's current or latest call
    old_snapshot,   \* the registry when that call read the existing names
    published,      \* the values that call handed to send, in order
    first_pos,      \* channel position when that call began
    prev_cfg,       \* the Config installed when that call began, or NoConfig
    installed,      \* the Config whose components the registry holds, or NoConfig
    topologies,     \* new_components of every call begun so far
    watch,          \* one update_config call picked for observation
    sub_at,         \* channel position when the subscriber subscribed
    recvd,          \* positions of the values the receiver returned Ok
    out,            \* what the stream yielded: payload and its channel position
    lag_at,         \* channel position at the receiver's latest Lagged, 0 if none
    skipped,        \* channel positions the receiver was moved past by a Lagged
    names_at,       \* the registry's names when the subscriber subscribed, and
                    \* whether no update_config call was in progress then
    epoch           \* the calls that overlap: all calls since every writer was idle

vars ==
    <<components, buffer, pc, new_components, removed_left, added_left, looked_up, mode,
      next,
      terminated, last_read, cfg_of, old_snapshot, published, first_pos, prev_cfg,
      installed, topologies, watch, sub_at, recvd, out, lag_at, skipped, names_at, epoch>>

writer_vars == <<pc, new_components, removed_left, added_left, looked_up>>
writer_hist == <<cfg_of, old_snapshot, published, first_pos, prev_cfg>>
sub_vars == <<mode, next, terminated, sub_at, recvd, out, lag_at, skipped, names_at>>

NoConfig == [none |-> TRUE]
NoComponent == [none |-> TRUE]
NoWatch == [on |-> FALSE]
NoEpoch == [base |-> EmptyMap, calls |-> <<>>, events |-> <<>>]

Init ==
    /\ components = EmptyMap
    /\ buffer = <<>>
    /\ pc = [w \in Writers |-> "idle"]
    /\ new_components = [w \in Writers |-> EmptyMap]
    /\ removed_left = [w \in Writers |-> {}]
    /\ added_left = [w \in Writers |-> {}]
    /\ looked_up = [w \in Writers |-> NoComponent]
    /\ mode = [s \in Subs |-> "none"]
    /\ next = [s \in Subs |-> 0]
    /\ terminated = [s \in Subs |-> FALSE]
    /\ last_read = [query |-> "none", result |-> {}, during |-> {}]
    /\ cfg_of = [w \in Writers |-> NoConfig]
    /\ old_snapshot = [w \in Writers |-> EmptyMap]
    /\ published = [w \in Writers |-> <<>>]
    /\ first_pos = [w \in Writers |-> 0]
    /\ prev_cfg = [w \in Writers |-> NoConfig]
    /\ installed = NoConfig
    /\ topologies = {}
    /\ watch = NoWatch
    /\ sub_at = [s \in Subs |-> 0]
    /\ recvd = [s \in Subs |-> <<>>]
    /\ out = [s \in Subs |-> <<>>]
    /\ lag_at = [s \in Subs |-> 0]
    /\ skipped = [s \in Subs |-> {}]
    /\ names_at = [s \in Subs |-> [names |-> {}, between |-> FALSE]]
    /\ epoch = NoEpoch

\* ------------------------------------------------------------ broadcast channel
Added(c) == [type |-> "Added", component |-> c]
Removed(c) == [type |-> "Removed", component |-> c]

\* Number of live receivers.
RxCnt(m) == Cardinality({s \in Subs : m[s] # "none"})

\* Sender::send: with no receiver the value is returned in an Err and not
\* stored; otherwise it is stored at the tail.  It never waits for a receiver.
Send(buf, rx_cnt, value) == IF rx_cnt = 0 THEN buf ELSE Append(buf, value)

\* Variant: the new receiver starts at the oldest value the channel retains.
SubscribeOldest(buf) == IF Len(buf) > Capacity THEN Len(buf) - Capacity ELSE 0

\* Sender::subscribe: the new receiver starts at the tail.
Subscribe(buf) == Len(buf)

\* Variant: at the tail the receiver reads the oldest slot again instead of
\* reporting Empty.
RecvStale(buf, nxt) ==
    IF Len(buf) - nxt > Capacity
    THEN [status |-> "Lagged", next |-> Len(buf) - Capacity]
    ELSE IF nxt = Len(buf)
         THEN IF Len(buf) = 0
              THEN [status |-> "Empty", next |-> nxt]
              ELSE LET oldest == IF Len(buf) > Capacity THEN Len(buf) - Capacity ELSE 0
                   IN [status |-> "Ok", value |-> buf[oldest + 1], next |-> oldest + 1]
         ELSE [status |-> "Ok", value |-> buf[nxt + 1], next |-> nxt + 1]

\* Receiver::recv as polled by into_stream: Lagged when the value at `nxt` was
\* overwritten (the receiver moves to the oldest retained value), Empty at the
\* tail, the value otherwise.
Recv(buf, nxt) ==
    IF Len(buf) - nxt > Capacity
    THEN [status |-> "Lagged", next |-> Len(buf) - Capacity]
    ELSE IF nxt = Len(buf)
         THEN [status |-> "Empty", next |-> nxt]
         ELSE [status |-> "Ok", value |-> buf[nxt + 1], next |-> nxt + 1]

\* ------------------------------------------------------------ subscriptions
\* The filter_map closures of component_added and component_removed:
\* <<c>> for Some(c), <<>> for None.
ComponentAddedFilter(res) ==
    IF res.status = "Ok" /\ res.value.type = "Added" THEN <<res.value.component>> ELSE <<>>

ComponentRemovedFilter(res) ==
    IF res.status = "Ok" /\ res.value.type = "Removed" THEN <<res.value.component>> ELSE <<>>

\* Variant: the two closures are exchanged.
FilterMapSwapped(m, res) ==
    IF m = "added" THEN ComponentRemovedFilter(res) ELSE ComponentAddedFilter(res)

FilterMap(m, res) ==
    IF m = "added" THEN ComponentAddedFilter(res) ELSE ComponentRemovedFilter(res)

\* Variant: the stream also ends at the first transport error.
StreamEndsOnError(res) == res.status \in {"Closed", "Lagged"}

\* The stream ends only when the receiver reports the channel closed, which the
\* static sender never lets happen.
StreamEnds(res) == res.status = "Closed"

\* component_added / component_removed: subscribe to COMPONENT_CHANGED.
\* `note` makes the history keep the registry's names of that moment.
SubscribeStream(s, m, note) ==
    /\ mode[s] = "none"
    /\ mode' = [mode EXCEPT ![s] = m]
    /\ next' = [next EXCEPT ![s] = Subscribe(buffer)]
    /\ sub_at' = [sub_at EXCEPT ![s] = Len(buffer)]
    /\ names_at' = IF note
                   THEN [names_at EXCEPT ![s] =
                            [names |-> GetComponentNames(components),
                             between |-> \A w \in Writers : pc[w] = "idle"]]
                   ELSE names_at
    /\ UNCHANGED <<components, buffer, writer_vars, terminated, last_read, writer_hist,
                   installed, topologies, watch, recvd, out, lag_at, skipped, epoch>>

\* Variant: all streams read through one shared receiver, so a value one
\* stream takes is gone for the others.
PollShared(s) ==
    /\ mode[s] # "none"
    /\ ~terminated[s]
    /\ LET res == Recv(buffer, next[s])
           some == FilterMap(mode[s], res)
       IN /\ res.status # "Empty"
          /\ next' = [t \in Subs |-> IF mode[t] # "none" /\ next[t] <= res.next
                                     THEN res.next ELSE next[t]]
          /\ terminated' = [terminated EXCEPT ![s] = StreamEnds(res)]
          /\ out' = [out EXCEPT ![s] =
                        @ \o [i \in 1..Len(some) |-> [at |-> res.next, component |-> some[i]]]]
          /\ recvd' = [recvd EXCEPT ![s] = IF res.status = "Ok" THEN Append(@, res.next) ELSE @]
          /\ lag_at' = [lag_at EXCEPT ![s] = IF res.status = "Lagged" THEN Len(buffer) ELSE @]
          /\ skipped' = [skipped EXCEPT ![s] =
                            IF res.status = "Lagged" THEN @ \cup (next[s] + 1 .. res.next) ELSE @]
    /\ UNCHANGED <<components, buffer, writer_vars, mode, last_read, writer_hist,
                   installed, topologies, watch, sub_at, names_at, epoch>>

\* One poll of the stream that has something to return.
Poll(s) ==
    /\ mode[s] # "none"
    /\ ~terminated[s]
    /\ LET res == Recv(buffer, next[s])
           some == FilterMap(mode[s], res)
       IN /\ res.status # "Empty"
          /\ next' = [next EXCEPT ![s] = res.next]
          /\ terminated' = [terminated EXCEPT ![s] = StreamEnds(res)]
          /\ out' = [out EXCEPT ![s] =
                        @ \o [i \in 1..Len(some) |-> [at |-> res.next, component |-> some[i]]]]
          /\ recvd' = [recvd EXCEPT ![s] = IF res.status = "Ok" THEN Append(@, res.next) ELSE @]
          /\ lag_at' = [lag_at EXCEPT ![s] = IF res.status = "Lagged" THEN Len(buffer) ELSE @]
          /\ skipped' = [skipped EXCEPT ![s] =
                            IF res.status = "Lagged" THEN @ \cup (next[s] + 1 .. res.next) ELSE @]
    /\ UNCHANGED <<components, buffer, writer_vars, mode, last_read, writer_hist,
                   installed, topologies, watch, sub_at, names_at, epoch>>

\* ------------------------------------------------------------ queries
\* components(), sources(), transforms(), sinks(): one read of the registry.
Query(q) ==
    /\ last_read' = [query |-> q, result |-> QueryResult(q, components),
                     during |-> {w \in Writers : pc[w] \notin {"idle", "panicked"}}]
    /\ UNCHANGED <<components, buffer, writer_vars, sub_vars, writer_hist, installed,
                   topologies, watch, epoch>>

\* ------------------------------------------------------------ update_config
\* Variant: the Added loop is left out.
ContinueNoAdded(removed, added) == IF removed # {} THEN "removed" ELSE "override"

\* Variant: the Added loop runs before the Removed loop.
ContinueAddedFirst(removed, added) ==
    IF added # {} THEN "added" ELSE IF removed # {} THEN "removed" ELSE "override"

\* Where the call continues: the Removed loop, the Added loop, state::update.
Continue(removed, added) ==
    IF removed # {} THEN "removed" ELSE IF added # {} THEN "added" ELSE "override"

\* Variant: state::update is called before the two loops instead of after.
UpdateConfigBeginEager(w, cfg, track) ==
    /\ pc[w] = "idle"
    /\ track => ~watch.on
    /\ LET new == NewComponents(cfg)
           existing_component_names == GetComponentNames(components)
           new_component_names == NewComponentNames(new)
           removed == RemovedNames(existing_component_names, new_component_names)
           added == AddedNames(existing_component_names, new_component_names)
       IN /\ new_components' = [new_components EXCEPT ![w] = new]
          /\ removed_left' = [removed_left EXCEPT ![w] = removed]
          /\ added_left' = [added_left EXCEPT ![w] = added]
          /\ pc' = [pc EXCEPT ![w] = Continue(removed, added)]
          /\ topologies' = topologies \cup {new}
          /\ components' = new
          /\ watch' = IF track
                      THEN [on |-> TRUE, done |-> FALSE, w |-> w, first |-> Len(buffer),
                            last |-> Len(buffer), old |-> components, new |-> new,
                            subs |-> {s \in Subs : mode[s] # "none"},
                            subs_end |-> {s \in Subs : mode[s] # "none"}]
                      ELSE watch
    /\ cfg_of' = [cfg_of EXCEPT ![w] = cfg]
    /\ old_snapshot' = [old_snapshot EXCEPT ![w] = components]
    /\ published' = [published EXCEPT ![w] = <<>>]
    /\ first_pos' = [first_pos EXCEPT ![w] = Len(buffer)]
    /\ prev_cfg' = [prev_cfg EXCEPT ![w] = installed]
    /\ epoch' = IF \A v \in Writers : pc[v] = "idle"
                THEN [base |-> components, calls |-> <<cfg>>, events |-> <<>>]
                ELSE [epoch EXCEPT !.calls = Append(@, cfg)]
    /\ UNCHANGED <<buffer, looked_up, sub_vars, last_read, installed>>

\* Lines 92-135: build new_components, read the existing names, form both
\* differences.  `track` picks the call as the observed one (history only).
UpdateConfigBegin(w, cfg, track) ==
    /\ pc[w] = "idle"
    /\ track => ~watch.on
    /\ LET new == NewComponents(cfg)
           existing_component_names == GetComponentNames(components)
           new_component_names == NewComponentNames(new)
           removed == RemovedNames(existing_component_names, new_component_names)
           added == AddedNames(existing_component_names, new_component_names)
       IN /\ new_components' = [new_components EXCEPT ![w] = new]
          /\ removed_left' = [removed_left EXCEPT ![w] = removed]
          /\ added_left' = [added_left EXCEPT ![w] = added]
          /\ pc' = [pc EXCEPT ![w] = Continue(removed, added)]
          /\ topologies' = topologies \cup {new}
          /\ watch' = IF track
                      THEN [on |-> TRUE, done |-> FALSE, w |-> w, first |-> Len(buffer),
                            last |-> Len(buffer), old |-> components, new |-> new,
                            subs |-> {s \in Subs : mode[s] # "none"},
                            subs_end |-> {s \in Subs : mode[s] # "none"}]
                      ELSE watch
    /\ cfg_of' = [cfg_of EXCEPT ![w] = cfg]
    /\ old_snapshot' = [old_snapshot EXCEPT ![w] = components]
    /\ published' = [published EXCEPT ![w] = <<>>]
    /\ first_pos' = [first_pos EXCEPT ![w] = Len(buffer)]
    /\ prev_cfg' = [prev_cfg EXCEPT ![w] = installed]
    /\ epoch' = IF \A v \in Writers : pc[v] = "idle"
                THEN [base |-> components, calls |-> <<cfg>>, events |-> <<>>]
                ELSE [epoch EXCEPT !.calls = Append(@, cfg)]
    /\ UNCHANGED <<components, buffer, looked_up, sub_vars, last_read, installed>>

\* Line 142, the argument of send: look the next removed name up in the
\* registry as it is now and keep the component.  A lookup that finds nothing
\* leaves the call without a component to send: the call ends there.
LookupRemoved(w) ==
    /\ pc[w] = "removed"
    /\ \E name \in removed_left[w] :
         LET c == ComponentByName(components, name)
         IN IF c = NotFound
            THEN /\ pc' = [pc EXCEPT ![w] = "panicked"]
                 /\ UNCHANGED looked_up
            ELSE /\ pc' = [pc EXCEPT ![w] = "send_removed"]
                 /\ looked_up' = [looked_up EXCEPT ![w] = c]
    /\ UNCHANGED <<components, buffer, new_components, removed_left, added_left, sub_vars,
                   last_read, writer_hist, installed, topologies, watch, epoch>>

\* Lines 141-143: send Removed with the component looked up, whatever the
\* registry holds by now.
SendRemoved(w) ==
    /\ pc[w] = "send_removed"
    /\ LET c == looked_up[w]
           left == removed_left[w] \ {c.name}
       IN /\ buffer' = Send(buffer, RxCnt(mode), Removed(c))
          /\ removed_left' = [removed_left EXCEPT ![w] = left]
          /\ pc' = [pc EXCEPT ![w] = Continue(left, added_left[w])]
          /\ published' = [published EXCEPT ![w] = Append(@, Removed(c))]
          /\ epoch' = [epoch EXCEPT !.events = Append(@, Removed(c))]
    /\ looked_up' = [looked_up EXCEPT ![w] = NoComponent]
    /\ UNCHANGED <<components, new_components, added_left, sub_vars, last_read, cfg_of,
                   old_snapshot, first_pos, prev_cfg, installed, topologies, watch>>

\* Variant: send waits until every receiver has room for one more value.
PublishAddedBlocking(w) ==
    /\ pc[w] = "added"
    /\ \A s \in Subs : mode[s] # "none" => Len(buffer) - next[s] < Capacity
    /\ \E name \in added_left[w] :
         LET c == new_components[w][name]
             left == added_left[w] \ {name}
         IN /\ buffer' = Send(buffer, RxCnt(mode), Added(c))
            /\ added_left' = [added_left EXCEPT ![w] = left]
            /\ pc' = [pc EXCEPT ![w] = Continue({}, left)]
            /\ published' = [published EXCEPT ![w] = Append(@, Added(c))]
            /\ epoch' = [epoch EXCEPT !.events = Append(@, Added(c))]
    /\ UNCHANGED <<components, new_components, removed_left, looked_up, sub_vars, last_read,
                   cfg_of, old_snapshot, first_pos, prev_cfg, installed, topologies, watch>>

\* Variant: the result of send is unwrapped, so a send without receivers
\* ends the call.
PublishAddedUnwrap(w) ==
    /\ pc[w] = "added"
    /\ \E name \in added_left[w] :
         LET c == new_components[w][name]
             left == added_left[w] \ {name}
         IN /\ buffer' = Send(buffer, RxCnt(mode), Added(c))
            /\ added_left' = [added_left EXCEPT ![w] = left]
            /\ pc' = [pc EXCEPT ![w] = IF RxCnt(mode) = 0 THEN "panicked"
                                       ELSE Continue({}, left)]
            /\ published' = [published EXCEPT ![w] = Append(@, Added(c))]
            /\ epoch' = [epoch EXCEPT !.events = Append(@, Added(c))]
    /\ UNCHANGED <<components, new_components, removed_left, looked_up, sub_vars, last_read,
                   cfg_of, old_snapshot, first_pos, prev_cfg, installed, topologies, watch>>

\* Lines 146-152, one iteration: send Added with the new component.
PublishAdded(w) ==
    /\ pc[w] = "added"
    /\ \E name \in added_left[w] :
         LET c == new_components[w][name]
             left == added_left[w] \ {name}
         IN /\ buffer' = Send(buffer, RxCnt(mode), Added(c))
            /\ added_left' = [added_left EXCEPT ![w] = left]
            /\ pc' = [pc EXCEPT ![w] = Continue({}, left)]
            /\ published' = [published EXCEPT ![w] = Append(@, Added(c))]
            /\ epoch' = [epoch EXCEPT !.events = Append(@, Added(c))]
    /\ UNCHANGED <<components, new_components, removed_left, looked_up, sub_vars, last_read,
                   cfg_of, old_snapshot, first_pos, prev_cfg, installed, topologies, watch>>

\* Variant: the new entries are inserted into the map the registry holds.
OverrideStateMerge(w) ==
    /\ pc[w] = "override"
    /\ components' = InsertAll(components, new_components[w])
    /\ pc' = [pc EXCEPT ![w] = "idle"]
    /\ installed' = cfg_of[w]
    /\ watch' = IF watch.on /\ ~watch.done /\ watch.w = w
                THEN [watch EXCEPT !.done = TRUE, !.last = Len(buffer),
                                   !.subs_end = {s \in Subs : mode[s] # "none"}]
                ELSE watch
    /\ UNCHANGED <<buffer, new_components, removed_left, added_left, looked_up, sub_vars,
                   last_read, writer_hist, topologies, epoch>>

\* Variant: the registry is left alone when the call published nothing.
OverrideStateIfChanged(w) ==
    /\ pc[w] = "override"
    /\ components' = IF published[w] = <<>> THEN components ELSE new_components[w]
    /\ pc' = [pc EXCEPT ![w] = "idle"]
    /\ installed' = cfg_of[w]
    /\ watch' = IF watch.on /\ ~watch.done /\ watch.w = w
                THEN [watch EXCEPT !.done = TRUE, !.last = Len(buffer),
                                   !.subs_end = {s \in Subs : mode[s] # "none"}]
                ELSE watch
    /\ UNCHANGED <<buffer, new_components, removed_left, added_left, looked_up, sub_vars,
                   last_read, writer_hist, topologies, epoch>>

\* Line 155: state::update(new_components) replaces the whole map.
OverrideState(w) ==
    /\ pc[w] = "override"
    /\ components' = new_components[w]
    /\ pc' = [pc EXCEPT ![w] = "idle"]
    /\ installed' = cfg_of[w]
    /\ watch' = IF watch.on /\ ~watch.done /\ watch.w = w
                THEN [watch EXCEPT !.done = TRUE, !.last = Len(buffer),
                                   !.subs_end = {s \in Subs : mode[s] # "none"}]
                ELSE watch
    /\ UNCHANGED <<buffer, new_components, removed_left, added_left, looked_up, sub_vars,
                   last_read, writer_hist, topologies, epoch>>

\* ------------------------------------------------------------ specifications
\* update_config calls one after another, one subscriber.
Next ==
    \/ \E cfg \in Configs :
         Len(buffer) < MaxStored /\ UpdateConfigBegin("w1", cfg, FALSE)
    \/ LookupRemoved("w1")
    \/ SendRemoved("w1")
    \/ PublishAdded("w1")
    \/ OverrideState("w1")
    \/ \E m \in {"added", "removed"} : SubscribeStream("s1", m, FALSE)
    \/ Poll("s1")

Spec == Init /\ [][Next]_vars

\* Many small reloads and one subscriber that may lag; any one call observed.
NextLag ==
    \/ \E cfg \in LagConfigs, track \in BOOLEAN :
         Len(buffer) < MaxLagStored /\ UpdateConfigBegin("w1", cfg, track)
    \/ LookupRemoved("w1")
    \/ SendRemoved("w1")
    \/ PublishAdded("w1")
    \/ OverrideState("w1")
    \/ \E m \in {"added", "removed"} : SubscribeStream("s1", m, FALSE)
    \/ Poll("s1")

SpecLag == Init /\ [][NextLag]_vars

\* Reloads that change one, two or three names at once, and one subscriber
\* that may lag; any one call observed.
NextPace ==
    \/ \E cfg \in PaceConfigs, track \in BOOLEAN :
         Len(buffer) < MaxLagStored /\ UpdateConfigBegin("w1", cfg, track)
    \/ LookupRemoved("w1")
    \/ SendRemoved("w1")
    \/ PublishAdded("w1")
    \/ OverrideState("w1")
    \/ \E m \in {"added", "removed"} : SubscribeStream("s1", m, FALSE)
    \/ Poll("s1")

SpecPace == Init /\ [][NextPace]_vars

\* Many small reloads fanned out to two subscribers.
NextFan ==
    \/ \E cfg \in LagConfigs :
         Len(buffer) < MaxFanStored /\ UpdateConfigBegin("w1", cfg, FALSE)
    \/ LookupRemoved("w1")
    \/ SendRemoved("w1")
    \/ PublishAdded("w1")
    \/ OverrideState("w1")
    \/ \E s \in Subs, m \in {"added", "removed"} : SubscribeStream(s, m, FALSE)
    \/ \E s \in Subs : Poll(s)

SpecFan == Init /\ [][NextFan]_vars

\* update_config calls one after another, watched by a client that keeps the
\* registry's names of the moment it subscribed.
NextRebuild ==
    \/ \E cfg \in RebuildConfigs :
         Len(buffer) < MaxStored /\ UpdateConfigBegin("w1", cfg, FALSE)
    \/ LookupRemoved("w1")
    \/ SendRemoved("w1")
    \/ PublishAdded("w1")
    \/ OverrideState("w1")
    \/ \E s \in Subs, m \in {"added", "removed"} : SubscribeStream(s, m, TRUE)
    \/ \E s \in Subs : Poll(s)

SpecRebuild == Init /\ [][NextRebuild]_vars

\* update_config calls one after another, with queries in between.
NextRead ==
    \/ \E cfg \in ReadConfigs : UpdateConfigBegin("w1", cfg, FALSE)
    \/ LookupRemoved("w1")
    \/ SendRemoved("w1")
    \/ PublishAdded("w1")
    \/ OverrideState("w1")
    \/ \E q \in Queries : Query(q)

SpecRead == Init /\ [][NextRead]_vars

\* update_config called from two threads at once, with concurrent queries.
NextConc ==
    \/ \E w \in Writers, cfg \in ConcConfigs :
         Len(epoch.calls) < MaxEpochCalls /\ UpdateConfigBegin(w, cfg, FALSE)
    \/ \E w \in Writers : LookupRemoved(w)
    \/ \E w \in Writers : SendRemoved(w)
    \/ \E w \in Writers : PublishAdded(w)
    \/ \E w \in Writers : OverrideState(w)
    \/ \E q \in Queries : Query(q)

SpecConc == Init /\ [][NextConc]_vars

\* ------------------------------------------------------------ properties
\* The events the diff of two snapshots calls for.
Expected(old, new) ==
    {Removed(old[n]) : n \in (DOMAIN old) \ (DOMAIN new)}
        \cup {Added(new[n]) : n \in (DOMAIN new) \ (DOMAIN old)}

Events(seq) == {seq[i] : i \in 1..Len(seq)}

\* C1: an update call executed alone publishes exactly one Removed(old[n]) for
\* each name of old that is not in new and one Added(new[n]) for each name of
\* new that is not in old: nothing else while it runs, all of them once it has
\* finished, and no name twice.
C1_PublishesExactlyTheDiff ==
    LET pub == published["w1"]
        exp == Expected(old_snapshot["w1"], new_components["w1"])
    IN /\ Events(pub) \subseteq exp
       /\ \A i, j \in 1..Len(pub) : i # j => pub[i].component.name # pub[j].component.name
       /\ pc["w1"] = "idle" => Events(pub) = exp

\* C1 witness: old {a, b}, new {b, c}: the finished call published Removed(a)
\* and Added(c) and nothing for b.
C1_Witness ==
    /\ pc["w1"] = "idle"
    /\ old_snapshot["w1"] = NewComponents(CfgAB)
    /\ cfg_of["w1"] = CfgBC
    /\ Events(published["w1"]) =
           {Removed(NewComponents(CfgAB)["a"]), Added(NewComponents(CfgBC)["c"])}
    /\ Len(published["w1"]) = 2

\* C4: a name present in the old snapshot and in the new topology never gets an
\* event in that call, whatever changed in its component.
C4_NoSpuriousEvents ==
    \A i \in 1..Len(published["w1"]) :
        published["w1"][i].component.name
            \notin (DOMAIN old_snapshot["w1"]) \cap (DOMAIN new_components["w1"])

\* C4 witness: a finished call whose topology kept the names a and b and
\* changed b's kind, type tag and inputs and a's type tag and output type.
C4_Witness ==
    /\ pc["w1"] = "idle"
    /\ old_snapshot["w1"] = NewComponents(CfgAB)
    /\ cfg_of["w1"] = CfgChanged
    /\ components["b"].kind = "Transform"
    /\ old_snapshot["w1"]["b"].kind = "Sink"
    /\ components["a"].component_type # old_snapshot["w1"]["a"].component_type
    /\ components["a"].topology # old_snapshot["w1"]["a"].topology

\* C5: a call with the topology the previous call installed publishes nothing
\* and leaves the registry equal to that topology.
C5_Idempotent ==
    cfg_of["w1"] # NoConfig /\ cfg_of["w1"] = prev_cfg["w1"] =>
        /\ published["w1"] = <<>>
        /\ pc["w1"] = "idle" => components = NewComponents(cfg_of["w1"])

\* C5 witness: the second of two calls with the topology {a, b} has finished.
C5_Witness ==
    /\ pc["w1"] = "idle"
    /\ cfg_of["w1"] = CfgAB
    /\ prev_cfg["w1"] = CfgAB
    /\ components = NewComponents(CfgAB)

\* The positions among `from + 1 .. to` that the receiver of s returned.
ReceivedIn(s, from, to) == {recvd[s][i] : i \in 1..Len(recvd[s])} \cap (from + 1 .. to)

\* The positions among `from + 1 .. to` whose payload the stream of s yielded.
YieldedIn(s, from, to) == {o \in Events(out[s]) : o.at > from /\ o.at <= to}

KindOf(m) == IF m = "added" THEN "Added" ELSE "Removed"

\* What the receiver of s got of the observed call equals the call's diff,
\* each event once, and its stream yielded those of its own kind.
ObservedWatchedCall(s) ==
    LET got == ReceivedIn(s, watch.first, watch.last)
        exp == Expected(watch.old, watch.new)
    IN /\ \A e \in exp : Cardinality({p \in got : buffer[p] = e}) = 1
       /\ \A p \in got : buffer[p] \in exp
       /\ {[type |-> KindOf(mode[s]), component |-> o.component] :
              o \in YieldedIn(s, watch.first, watch.last)}
            = {e \in exp : e.type = KindOf(mode[s])}

\* C2 as stated: every subscriber that subscribed before a call began has, once
\* it has read past the call's events, got exactly one Added(new[n]) per added
\* name and one Removed(old[n]) per removed name, at whatever pace it reads.
C2_CompleteAtAnyPace ==
    watch.on /\ watch.done =>
        \A s \in watch.subs :
            next[s] >= watch.last =>
                LET got == ReceivedIn(s, watch.first, watch.last)
                IN \A e \in Expected(watch.old, watch.new) :
                       Cardinality({p \in got : buffer[p] = e}) = 1

\* C2 amended: the same for every subscriber whose receiver was not moved
\* past an event of the call by a Lagged error, whether or not it lagged on
\* earlier events; its stream yields the events of its own kind.
C2_CompleteUnlessLagged ==
    watch.on /\ watch.done =>
        \A s \in watch.subs :
            (next[s] >= watch.last
                 /\ skipped[s] \cap (watch.first + 1 .. watch.last) = {})
                => ObservedWatchedCall(s)

\* C2 witness: the observed call replaced {a, b} by {b, c}; the
\* component_removed subscriber, subscribed before it, was reported a lag
\* after the call had begun, which cost it older events only, and has got
\* Removed(a) and Added(c), each once, its stream yielding the old source a.
C2_Witness ==
    /\ watch.on /\ watch.done
    /\ "s1" \in watch.subs
    /\ mode["s1"] = "removed"
    /\ watch.old = NewComponents(CfgAB)
    /\ watch.new = NewComponents(CfgBC)
    /\ watch.last = watch.first + 2
    /\ lag_at["s1"] > watch.first
    /\ skipped["s1"] # {}
    /\ skipped["s1"] \cap (watch.first + 1 .. watch.last) = {}
    /\ next["s1"] >= watch.last
    /\ ReceivedIn("s1", watch.first, watch.last) = {watch.first + 1, watch.last}
    /\ {o.component : o \in YieldedIn("s1", watch.first, watch.last)}
           = {NewComponents(CfgAB)["a"]}

\* The payloads of the events of type `type` among the positions of seq.
RECURSIVE PayloadsOf(_, _)
PayloadsOf(seq, type) ==
    IF seq = <<>>
    THEN <<>>
    ELSE LET p == Head(seq)
         IN (IF buffer[p].type = type
             THEN <<[at |-> p, component |-> buffer[p].component]>>
             ELSE <<>>) \o PayloadsOf(Tail(seq), type)

\* C10: the component_added stream yields exactly the payloads of the Added
\* events its receiver returns, in order, and component_removed those of the
\* Removed events; a Lagged error is skipped and does not end the stream, so
\* every event stored after the lag that the receiver has passed was returned.
C10_StreamYieldsItsKind ==
    \A s \in Subs :
        mode[s] # "none" =>
            /\ out[s] = PayloadsOf(recvd[s], KindOf(mode[s]))
            /\ ~terminated[s]
            /\ lag_at[s] > 0 => ReceivedIn(s, lag_at[s], next[s]) = lag_at[s] + 1 .. next[s]

\* C10 witness: a stream whose receiver lagged has since yielded an event that
\* was stored after the lag, and has skipped an event of the other kind.
C10_Witness ==
    /\ lag_at["s1"] > 0
    /\ \E i \in 1..Len(out["s1"]) : out["s1"][i].at > lag_at["s1"]
    /\ Len(out["s1"]) < Len(recvd["s1"])

\* C7: a subscriber gets and yields only events stored after its subscribe
\* call; the events of a call that completed before it subscribed lie at
\* positions up to its starting position, so it never gets any of them.
C7_NoReplay ==
    \A s \in Subs :
        /\ \A i \in 1..Len(recvd[s]) : recvd[s][i] > sub_at[s]
        /\ \A i \in 1..Len(out[s]) : out[s][i].at > sub_at[s]
        /\ mode[s] # "none" => next[s] >= sub_at[s]

\* C7 witness: s2 subscribed after a call had completed and stored its event
\* for s1, and has since yielded an event of a later call.
C7_Witness ==
    /\ mode["s1"] # "none" /\ mode["s2"] # "none"
    /\ sub_at["s2"] > sub_at["s1"]
    /\ Len(out["s2"]) > 0
    /\ pc["w1"] = "idle"

\* C8 as stated: a call in progress can always take its next step, whatever
\* the subscribers hold unread; a subscriber with more unread events than the
\* capacity of 10 handed to the channel loses its oldest unread events, its
\* next read reporting the lag; and a receiver that never lagged got every
\* value stored since it subscribed, up to where it has read.
C8_DropsBeyondTen ==
    /\ pc["w1"] # "panicked"
    /\ pc["w1"] = "removed" => ENABLED LookupRemoved("w1")
    /\ pc["w1"] = "send_removed" => ENABLED SendRemoved("w1")
    /\ pc["w1"] = "added" => ENABLED PublishAdded("w1")
    /\ pc["w1"] = "override" => ENABLED OverrideState("w1")
    /\ \A s \in Subs :
           mode[s] # "none" =>
               /\ Len(buffer) - next[s] > ChannelArg =>
                      Recv(buffer, next[s]).status = "Lagged"
               /\ lag_at[s] = 0 =>
                      ReceivedIn(s, sub_at[s], next[s]) = sub_at[s] + 1 .. next[s]

\* C8, amended: a call in progress can always take its next step, whatever
\* the subscribers hold unread; a subscriber loses its oldest unread events
\* exactly when it has more of them than the 16 values the channel retains;
\* what a receiver loses are only values older than everything the channel
\* retains, and a receiver that never lagged got every value stored since it
\* subscribed, up to where it has read.
C8_Backpressure ==
    /\ pc["w1"] # "panicked"
    /\ pc["w1"] = "removed" => ENABLED LookupRemoved("w1")
    /\ pc["w1"] = "send_removed" => ENABLED SendRemoved("w1")
    /\ pc["w1"] = "added" => ENABLED PublishAdded("w1")
    /\ pc["w1"] = "override" => ENABLED OverrideState("w1")
    /\ Capacity = 16
    /\ \A s \in Subs :
           mode[s] # "none" =>
               /\ Len(buffer) - next[s] > Capacity <=>
                      Recv(buffer, next[s]).status = "Lagged"
               /\ \A p \in (sub_at[s] + 1 .. next[s]) \ ReceivedIn(s, sub_at[s], next[s]) :
                      p <= Len(buffer) - Capacity
               /\ lag_at[s] = 0 =>
                      ReceivedIn(s, sub_at[s], next[s]) = sub_at[s] + 1 .. next[s]

\* C8 witness: s1 lagged and lost an event, while s2, subscribed no later and
\* keeping up, got more events than the channel retains, all of them.
C8_Witness ==
    /\ lag_at["s1"] > 0
    /\ Len(recvd["s1"]) < next["s1"] - sub_at["s1"]
    /\ mode["s2"] # "none"
    /\ lag_at["s2"] = 0
    /\ sub_at["s2"] = sub_at["s1"]
    /\ Len(recvd["s2"]) > Capacity
    /\ next["s2"] = Len(buffer)
    /\ pc["w1"] = "idle"

\* C9: two subscribers of the same stream kind, neither of which has lagged,
\* yield the same events among those stored after both subscribed and passed by
\* both; the events of a call begun after both subscribed are of this sort.
C9_Isolation ==
    \A s, t \in Subs :
        mode[s] # "none" /\ mode[s] = mode[t] /\ lag_at[s] = 0 /\ lag_at[t] = 0 =>
            LET from == IF sub_at[s] > sub_at[t] THEN sub_at[s] ELSE sub_at[t]
                to == IF next[s] < next[t] THEN next[s] ELSE next[t]
            IN YieldedIn(s, from, to) = YieldedIn(t, from, to)

\* C9 witness: two component_added subscribers that subscribed before the
\* latest call began have both yielded that call's Added event.
C9_Witness ==
    /\ mode["s1"] = "added" /\ mode["s2"] = "added"
    /\ sub_at["s1"] < sub_at["s2"]
    /\ sub_at["s2"] <= first_pos["w1"]
    /\ pc["w1"] = "idle"
    /\ Len(published["w1"]) = 1
    /\ next["s1"] = Len(buffer) /\ next["s2"] = Len(buffer)
    /\ YieldedIn("s1", first_pos["w1"], Len(buffer)) # {}
    /\ YieldedIn("s1", first_pos["w1"], Len(buffer)) = YieldedIn("s2", first_pos["w1"], Len(buffer))

\* The number of occurrences of e in seq.
Count(seq, e) == Cardinality({i \in 1..Len(seq) : seq[i] = e})

\* The registry and the events of the calls c1, c2 run one after the other
\* from the registry `base`.
SerialOutcome(base, c1, c2) ==
    LET mid == NewComponents(c1)
        new == NewComponents(c2)
    IN [components |-> new, first |-> Expected(base, mid), second |-> Expected(mid, new)]

\* C3: two overlapping update calls leave the registry and the published
\* events of one of their two serial orders, each event as often as that order
\* publishes it.
C3_AsIfSerialized ==
    (\A w \in Writers : pc[w] = "idle") /\ Len(epoch.calls) = 2 =>
        \E i \in 1..2 :
            LET ser == SerialOutcome(epoch.base, epoch.calls[i], epoch.calls[3 - i])
            IN /\ components = ser.components
               /\ \A e \in Events(epoch.events) \cup ser.first \cup ser.second :
                      Count(epoch.events, e) =
                          (IF e \in ser.first THEN 1 ELSE 0) + (IF e \in ser.second THEN 1 ELSE 0)

\* C6: the registry always holds the initial empty map or the whole topology
\* of one update call, and every query result is computed from one such map;
\* a query that runs while one call is alone in progress is computed from that
\* call's old or new snapshot.
C6_WholeSnapshots ==
    LET whole == {EmptyMap} \cup topologies
    IN /\ components \in whole
       /\ last_read.query # "none" =>
              \E t \in whole : last_read.result = QueryResult(last_read.query, t)
       /\ \A w \in Writers :
              pc[w] \notin {"idle", "panicked"} /\ Len(epoch.calls) = 1 =>
                  components \in {old_snapshot[w], new_components[w]}

\* C6 witness: a components() query that ran while a call replacing {a, b} by
\* {b, c} was in progress returned the whole old snapshot.
C6_Witness ==
    /\ pc["w1"] = "override"
    /\ Len(epoch.calls) = 1
    /\ old_snapshot["w1"] = NewComponents(CfgAB)
    /\ cfg_of["w1"] = CfgBC
    /\ last_read.during = {"w1"}
    /\ last_read.query = "components"
    /\ last_read.result = QueryResult("components", NewComponents(CfgAB))

\* C11: with calls run one after another, a subscriber never gets an event of
\* a call after an event of a later call: what it gets and what it yields come
\* in the order stored, so nothing of the observed call or of an earlier one
\* follows an event stored after the observed call completed.
C11_CrossCallOrder ==
    \A s \in Subs :
        /\ \A i, j \in 1..Len(recvd[s]) : i < j => recvd[s][i] < recvd[s][j]
        /\ \A i, j \in 1..Len(out[s]) : i < j => out[s][i].at < out[s][j].at
        /\ watch.on /\ watch.done =>
               \A i, j \in 1..Len(recvd[s]) :
                   i < j /\ recvd[s][i] > watch.last => recvd[s][j] > watch.last

\* C11 witness: the subscriber got the event of the observed call and then an
\* event of a call that began after the observed call had completed.
C11_Witness ==
    /\ watch.on /\ watch.done
    /\ watch.last = watch.first + 1
    /\ "s1" \in watch.subs
    /\ \E i, j \in 1..Len(recvd["s1"]) :
           /\ i < j
           /\ recvd["s1"][i] = watch.last
           /\ recvd["s1"][j] > watch.last
    /\ first_pos["w1"] >= watch.last
    /\ cfg_of["w1"] # NoConfig

\* C12: a call during which no subscriber exists hands its events to send
\* without failing and without anything being stored, runs to completion and
\* installs its topology; a subscriber created afterwards gets nothing of it.
C12_NoSubscribers ==
    /\ (\A s \in Subs : mode[s] = "none") =>
           /\ buffer = <<>>
           /\ pc["w1"] # "panicked"
           /\ pc["w1"] = "removed" => ENABLED LookupRemoved("w1")
           /\ pc["w1"] = "send_removed" => ENABLED SendRemoved("w1")
           /\ pc["w1"] = "added" => ENABLED PublishAdded("w1")
           /\ pc["w1"] = "override" => ENABLED OverrideState("w1")
           /\ pc["w1"] = "idle" =>
                  /\ components = new_components["w1"]
                  /\ Events(published["w1"]) =
                         Expected(old_snapshot["w1"], new_components["w1"])
    /\ watch.on /\ watch.done /\ watch.subs_end = {} =>
           /\ watch.last = watch.first
           /\ \A s \in Subs :
                  /\ sub_at[s] >= watch.last
                  /\ \A i \in 1..Len(recvd[s]) : recvd[s][i] > watch.last
                  /\ Len(recvd[s]) <= Len(buffer) - watch.last

\* C12 witness: the observed call added a with no subscriber around; the
\* subscriber created afterwards has got the event of a later call only.
C12_Witness ==
    /\ watch.on /\ watch.done /\ watch.subs_end = {}
    /\ watch.old = EmptyMap
    /\ watch.new = NewComponents(CfgA)
    /\ mode["s1"] = "removed"
    /\ Len(buffer) = 1
    /\ buffer[1] = Removed(NewComponents(CfgA)["a"])
    /\ recvd["s1"] = <<1>>
    /\ components = EmptyMap
    /\ pc["w1"] = "idle"

\* The components of the map `new` whose kind is in `kinds`.
OfKind(new, kinds) == {c \in {new[n] : n \in DOMAIN new} : c.kind \in kinds}

\* C13: once a call has completed, and until the next one, components()
\* returns exactly the components of its topology and sources(), transforms()
\* and sinks() those of their kind; after the topology with the one source
\* "in" sources() is [in], and after the empty topology components() is [].
C13_QueriesReturnNew ==
    pc["w1"] = "idle" /\ cfg_of["w1"] # NoConfig =>
        LET new == new_components["w1"]
        IN /\ QueryResult("components", components) = {new[n] : n \in DOMAIN new}
           /\ QueryResult("sources", components) = OfKind(new, {"Source"})
           /\ QueryResult("transforms", components) = OfKind(new, {"Transform"})
           /\ QueryResult("sinks", components) = OfKind(new, {"Sink"})
           /\ cfg_of["w1"] = CfgIn =>
                  QueryResult("sources", components) =
                      {[kind |-> "Source", name |-> "in", component_type |-> "stdin",
                        topology |-> "Log"]}
           /\ cfg_of["w1"] = CfgEmpty => QueryResult("components", components) = {}

\* C13 witness: after the call with the source "in" on the empty registry and
\* the call with the empty topology after it, a components() query made with
\* no call in progress returned nothing.
C13_Witness ==
    /\ pc["w1"] = "idle"
    /\ prev_cfg["w1"] = CfgIn
    /\ cfg_of["w1"] = CfgEmpty
    /\ Len(published["w1"]) = 1
    /\ published["w1"][1].type = "Removed"
    /\ published["w1"][1].component.name = "in"
    /\ last_read = [query |-> "components", result |-> {}, during |-> {}]
    /\ components = EmptyMap

\* C14: the registry never holds two components with one name, whatever
\* their kinds: every entry's key is the name its component carries, and
\* components() returns as many components as there are names.
C14_UniqueNames ==
    LET all == QueryResult("components", components)
    IN /\ \A n \in DOMAIN components : components[n].name = n
       /\ \A c1, c2 \in all : c1.name = c2.name => c1 = c2
       /\ Cardinality(all) = Cardinality(GetComponentNames(components))

\* C14 witness: after the topology that lists a as a source and as a sink the
\* registry holds one component named a, next to none other.
C14_Witness ==
    /\ pc["w1"] = "idle"
    /\ cfg_of["w1"] = CfgDup
    /\ DOMAIN components = {"a"}
    /\ QueryResult("components", components) = {components["a"]}

\* C15: no lookup by name ends a call: whenever update_config looks a removed
\* name up in the registry, the name is there or its absence is handled, so no
\* call is ever cut short by it.
C15_LookupNeverCrashes == \A w \in Writers : pc[w] # "panicked"

\* The call of w1 is between its read of the existing names and state::update.
Publishing == pc["w1"] \in {"removed", "send_removed", "added", "override"}

\* C16: with no other update in progress, the registry keeps the old snapshot
\* while a call publishes and is replaced only once every event of the call is
\* out; a query made in the meantime returns what the old snapshot holds; and
\* every Removed event carries the component the old snapshot held under that
\* name, in full.
C16_SnapshotReplacedLast ==
    /\ [](Publishing => components = old_snapshot["w1"])
    /\ [](\A i \in 1..Len(published["w1"]) :
            LET e == published["w1"][i]
            IN e.type = "Removed" =>
                 /\ e.component.name \in DOMAIN old_snapshot["w1"]
                 /\ e.component = old_snapshot["w1"][e.component.name])
    /\ [][/\ components' # components =>
               Events(published["w1"]) =
                   Expected(old_snapshot["w1"], new_components["w1"])
          /\ (Publishing /\ last_read' # last_read) =>
               /\ last_read'.during = {"w1"}
               /\ last_read'.result =
                      QueryResult(last_read'.query, old_snapshot["w1"])]_vars

\* C16 witness: the call that replaces {a, b} by {b, c} has sent Removed(a)
\* with the old source a, has Added(c) still to send, and a components() query
\* made during the call returned a and b as the old snapshot holds them.
C16_Witness ==
    /\ pc["w1"] = "added"
    /\ old_snapshot["w1"] = NewComponents(CfgAB)
    /\ cfg_of["w1"] = CfgBC
    /\ published["w1"] = <<Removed(NewComponents(CfgAB)["a"])>>
    /\ added_left["w1"] = {"c"}
    /\ last_read = [query |-> "components",
                    result |-> {NewComponents(CfgAB)[n] : n \in {"a", "b"}},
                    during |-> {"w1"}]

\* C18: within one call every Removed event is published before every Added
\* event: no Added precedes a Removed in what the call has sent, and no
\* Removed is still to come once an Added is out.
C18_RemovedBeforeAdded ==
    LET pub == published["w1"]
    IN /\ \A i, j \in 1..Len(pub) :
            (pub[i].type = "Added" /\ pub[j].type = "Removed") => j < i
       /\ (\E i \in 1..Len(pub) : pub[i].type = "Added") => removed_left["w1"] = {}

\* C18 witness: the finished call from {a, b} to {b, c} sent Removed(a) first
\* and Added(c) second.
C18_Witness ==
    /\ pc["w1"] = "idle"
    /\ old_snapshot["w1"] = NewComponents(CfgAB)
    /\ cfg_of["w1"] = CfgBC
    /\ published["w1"] = <<Removed(NewComponents(CfgAB)["a"]),
                           Added(NewComponents(CfgBC)["c"])>>

\* The component the configuration cfg leaves under the name n: the sink if n
\* is listed as a sink, else the transform if listed as one, else the source.
Surviving(cfg, n) ==
    IF n \in DOMAIN cfg.sinks THEN Sink(n, cfg.sinks[n])
    ELSE IF n \in DOMAIN cfg.transforms THEN Transform(n, cfg.transforms[n])
    ELSE Source(n, cfg.sources[n])

ListedNames(cfg) == (DOMAIN cfg.sources) \cup (DOMAIN cfg.transforms) \cup (DOMAIN cfg.sinks)

\* C19: a name listed under more than one kind yields one component in the
\* new topology, the sink before the transform before the source; the call
\* publishes at most one event for the name, an Added event for it carries
\* that surviving component, and so does the registry once the call is over.
C19_KindPrecedence ==
    cfg_of["w1"] # NoConfig =>
        LET cfg == cfg_of["w1"]
            new == new_components["w1"]
            pub == published["w1"]
        IN /\ DOMAIN new = ListedNames(cfg)
           /\ \A n \in ListedNames(cfg) :
                /\ new[n] = Surviving(cfg, n)
                /\ Cardinality({i \in 1..Len(pub) : pub[i].component.name = n}) <= 1
                /\ \A i \in 1..Len(pub) :
                     (pub[i].type = "Added" /\ pub[i].component.name = n) =>
                         pub[i].component = Surviving(cfg, n)
                /\ pc["w1"] = "idle" => components[n] = Surviving(cfg, n)

\* C19 witness: on the empty registry, the finished call whose topology lists
\* a as stdin source, json_parser transform and console sink, next to the
\* source b, sent two events, one of them Added with the console sink a.
C19_Witness ==
    /\ pc["w1"] = "idle"
    /\ old_snapshot["w1"] = EmptyMap
    /\ cfg_of["w1"] = CfgDupAll
    /\ Len(published["w1"]) = 2
    /\ Added([kind |-> "Sink", name |-> "a", component_type |-> "console",
              topology |-> <<"b">>]) \in Events(published["w1"])
    /\ components["a"].kind = "Sink"

\* C19, source and transform: the transform survives.
C19_WitnessTransform ==
    /\ pc["w1"] = "idle"
    /\ cfg_of["w1"] = CfgDupST
    /\ components["a"].kind = "Transform"

\* The names the stream of s yielded, as a set.
NamesYielded(s) == {out[s][i].component.name : i \in 1..Len(out[s])}

\* How many times the stream of s yielded a component named n.
TimesYielded(s, n) == Cardinality({i \in 1..Len(out[s]) : out[s][i].component.name = n})

\* The client behind the streams sa (component_added) and sr
\* (component_removed) opened both at one moment between two calls, never
\* lagged, and has read everything the channel stored.
WatchesBoth(sa, sr) ==
    /\ mode[sa] = "added" /\ mode[sr] = "removed"
    /\ names_at[sa].between /\ names_at[sr].between
    /\ sub_at[sa] = sub_at[sr]
    /\ names_at[sa].names = names_at[sr].names
    /\ lag_at[sa] = 0 /\ lag_at[sr] = 0
    /\ next[sa] = Len(buffer) /\ next[sr] = Len(buffer)

\* C17 as stated: with calls one after another, for a client that watches
\* both streams without lagging from a moment between two calls, after each
\* call the set of names it started from, plus the set of names of the Added
\* events, minus the set of names of the Removed events, is the set of names
\* in the registry.
C17_RebuildsBySets ==
    \A sa, sr \in Subs :
        (WatchesBoth(sa, sr) /\ pc["w1"] = "idle") =>
            (names_at[sa].names \cup NamesYielded(sa)) \ NamesYielded(sr)
                = GetComponentNames(components)

\* C17, amended: the same client rebuilds the registry by counting: after
\* each call, for every name, one if the name was in the starting set, plus
\* the number of Added events for it, minus the number of Removed events for
\* it, is one if the registry holds the name and zero if not.
C17_RebuildsByCounting ==
    \A sa, sr \in Subs :
        (WatchesBoth(sa, sr) /\ pc["w1"] = "idle") =>
            \A n \in names_at[sa].names \cup NamesYielded(sa) \cup NamesYielded(sr)
                       \cup GetComponentNames(components) :
                (IF n \in names_at[sa].names THEN 1 ELSE 0)
                        + TimesYielded(sa, n) - TimesYielded(sr, n)
                    = IF n \in GetComponentNames(components) THEN 1 ELSE 0

\* C17 witness: the client subscribed while the registry held a and b; the
\* call with {b, c} removed a and the call with {a, b} after it added a
\* again; the client was handed Removed a and c and Added c and a, and the
\* registry holds a and b again.
C17_Witness ==
    /\ WatchesBoth("s1", "s2")
    /\ pc["w1"] = "idle"
    /\ names_at["s1"].names = {"a", "b"}
    /\ prev_cfg["w1"] = CfgBC
    /\ cfg_of["w1"] = CfgAB
    /\ [i \in 1..Len(out["s1"]) |-> out["s1"][i].component.name] = <<"c", "a">>
    /\ [i \in 1..Len(out["s2"]) |-> out["s2"][i].component.name] = <<"a", "c">>
    /\ GetComponentNames(components) = {"a", "b"}

====
